---- MODULE Spec2Model ----
(***************************************************************************)
(* Model of rewrite.py: rewrite_file(path) reads the first two bytes of    *)
(* every BLOCKSIZE-sized block of a file and writes them back in place.    *)
(*                                                                         *)
(* The file is kept sparsely: its bytes are those of a generated pattern   *)
(* (seed, gen) overlaid by every byte ever written (overlay), so that      *)
(* files of the real size (several blocks of 128000 bytes) are modelled    *)
(* without restricting where the program may read or write.                *)
(***************************************************************************)
EXTENDS Integers, Sequences, FiniteSets

\* ---------------------------------------------------------------- bounds
MaxBlocks == 2      \* file sizes range over 0 .. MaxBlocks whole blocks + tail
MaxTail == 2        \* tails of 0 .. MaxTail bytes after the last whole block
MaxSeed == 1        \* seeds of the generated file contents
MaxRuns == 2        \* successive calls of rewrite_file on the same path

\* ------------------------------------------------------ program constants
BLOCKSIZE == 128 * 1000

Min(x, y) == IF x < y THEN x ELSE y
Max(x, y) == IF x > y THEN x ELSE y

\* ------------------------------------------------------------- the file
\* Byte p of the content a file was created with.
Pattern(seed, p) == (seed + 3 * p + 31 * (p \div BLOCKSIZE)) % 256

\* Byte at position p (0-based) of file f, p < f.size.
ByteAt(f, p) ==
    IF p \in DOMAIN f.overlay THEN f.overlay[p]
    ELSE IF p < f.gen THEN Pattern(f.seed, p)
    ELSE 0      \* a hole left by a write beyond the end reads as zero

NewFile(seed, n) == [seed |-> seed, gen |-> n, size |-> n, overlay |-> <<>>]

\* Two files over the same generated content are byte-for-byte equal.
SameContent(f, g) ==
    /\ f.size = g.size
    /\ \A p \in (DOMAIN f.overlay) \cup (DOMAIN g.overlay) :
          p < f.size => ByteAt(f, p) = ByteAt(g, p)

\* Variant: a missing path is reported as an empty file.
PathGetSizeMissingAsEmpty(ex, f) ==
    [ok |-> TRUE, size |-> IF ex THEN f.size ELSE 0, err |-> "none"]

\* os.path.getsize(path)
PathGetSize(ex, f) ==
    IF ex THEN [ok |-> TRUE, size |-> f.size, err |-> "none"]
    ELSE [ok |-> FALSE, size |-> -1, err |-> "FileNotFoundError"]

\* open(path, "rb+"): read/write, no truncation, no creation.
OpenRBPlus(ex, wr, f) ==
    IF ~ex THEN [ok |-> FALSE, exists |-> ex, file |-> f, err |-> "FileNotFoundError"]
    ELSE IF ~wr THEN [ok |-> FALSE, exists |-> ex, file |-> f, err |-> "PermissionError"]
    ELSE [ok |-> TRUE, exists |-> ex, file |-> f, err |-> "none"]

\* Variant: the last offset is skipped when only one byte follows it.
RangeHasNextPair(nxt, sz) == nxt + 1 < sz

\* Variant: the bound of the range is inclusive.
RangeHasNextLe(nxt, sz) == nxt <= sz

\* range(0, size, BLOCKSIZE): the iterator yields nxt while nxt < size.
RangeHasNext(nxt, sz) == nxt < sz

\* Variant: the step counts the block after the byte at the offset.
RangeStepOff(nxt) == nxt + BLOCKSIZE + 1

\* range(0, size, BLOCKSIZE): the step of the iterator.
RangeStep(nxt) == nxt + BLOCKSIZE

\* Variant: the read starts one byte late.
FileReadOff(f, p, n) ==
    [k \in 1..Min(n, Max(0, f.size - (p + 1))) |-> ByteAt(f, p + k)]

\* file.read(n) at position p: at most n bytes, fewer at end of file.
FileRead(f, p, n) ==
    [k \in 1..Min(n, Max(0, f.size - p)) |-> ByteAt(f, p + k - 1)]

\* a, b = <bytes>: unpacking needs exactly two values.
CanUnpack2(data) == Len(data) = 2

\* Variant: bytes([b, a]).
BytesOfSwapped(x, y) == <<y, x>>

\* Variant: bytes([a, a]).
BytesOfDup(x, y) == <<x, x>>

\* bytes([a, b]): each element must be in range(256).
BytesOf(x, y) == <<x, y>>
BytesOk(x, y) == x \in 0..255 /\ y \in 0..255

\* Variant: the file is in append mode, every write lands at the end.
FileWriteAppend(f, p, data) ==
    [f EXCEPT
       !.size = f.size + Len(data),
       !.overlay = [q \in (DOMAIN f.overlay) \cup (f.size .. f.size + Len(data) - 1) |->
                       IF q \in f.size .. f.size + Len(data) - 1
                       THEN data[q - f.size + 1]
                       ELSE f.overlay[q]]]

\* file.write(data) at position p: overwrites, extends the file if needed.
FileWrite(f, p, data) ==
    [f EXCEPT
       !.size = Max(f.size, p + Len(data)),
       !.overlay = [q \in (DOMAIN f.overlay) \cup (p .. p + Len(data) - 1) |->
                       IF q \in p .. p + Len(data) - 1 THEN data[q - p + 1]
                       ELSE f.overlay[q]]]

\* ---------------------------------------------------------------- state
VARIABLES
    file,       \* content of the file at path (meaningful when exists)
    exists,     \* the path names an existing regular file
    writable,   \* the file can be opened for reading and writing
    origFile,   \* the file before the first call (history)
    origExists, \* whether the path existed before the first call (history)
    run,        \* number of the current call of rewrite_file
    snap,       \* the file as left by each finished call (history)
    pc,         \* position in rewrite_file
    size,       \* local size (-1: unbound)
    nexti,      \* next value of the range iterator
    i,          \* loop variable (-1: unbound)
    a, b,       \* loop locals (-1: unbound)
    pos,        \* position of the file object
    handle,     \* "none", "open", "closed"
    openCalls,  \* calls of open() in this call
    opens,      \* handles acquired in this call
    closes,     \* handles released in this call
    err,        \* exception propagating out of the call, "none" if none
    trace       \* seek/read/write steps issued in this call, in order

env == <<exists, writable, origFile, origExists>>
locals == <<size, nexti, i, a, b>>
hstate == <<pos, handle, openCalls, opens, closes>>
vars == <<file, exists, writable, origFile, origExists, run, snap, pc, size, nexti, i, a, b,
          pos, handle, openCalls, opens, closes, err, trace>>

Tails == (0..MaxTail) \cup {50, BLOCKSIZE - 1}
Sizes == {k * BLOCKSIZE + t : k \in 0..MaxBlocks, t \in Tails}

Ev(op, at, held, data) == [op |-> op, at |-> at, held |-> held, data |-> data]

Init ==
    /\ \E s \in 0..MaxSeed, n \in Sizes : file = NewFile(s, n)
    /\ exists \in BOOLEAN
    /\ writable \in BOOLEAN
    /\ (~exists => writable = FALSE /\ file.size = 0 /\ file.seed = 0)
    /\ origFile = file
    /\ origExists = exists
    /\ run = 1
    /\ snap = <<>>
    /\ pc = "getsize"
    /\ size = -1 /\ nexti = 0 /\ i = -1 /\ a = -1 /\ b = -1
    /\ pos = 0 /\ handle = "none" /\ openCalls = 0 /\ opens = 0 /\ closes = 0
    /\ err = "none"
    /\ trace = <<>>

\* line 11: size = os.path.getsize(path)
GetSize ==
    /\ pc = "getsize"
    /\ LET r == PathGetSize(exists, file) IN
         IF r.ok
         THEN /\ size' = r.size
              /\ pc' = "open"
              /\ err' = err
         ELSE /\ size' = size
              /\ pc' = "raised"
              /\ err' = r.err
    /\ UNCHANGED <<file, env, run, snap, nexti, i, a, b, hstate, trace>>

\* line 14: with open(path, "rb+") as file
Open ==
    /\ pc = "open"
    /\ openCalls' = openCalls + 1
    /\ LET r == OpenRBPlus(exists, writable, file) IN
         /\ exists' = r.exists
         /\ file' = r.file
         /\ IF r.ok
            THEN /\ handle' = "open"
                 /\ opens' = opens + 1
                 /\ pos' = 0
                 /\ nexti' = 0
                 /\ pc' = "for"
                 /\ err' = err
            ELSE /\ pc' = "raised"
                 /\ err' = r.err
                 /\ UNCHANGED <<handle, opens, pos, nexti>>
    /\ UNCHANGED <<writable, origFile, origExists, run, snap, size, i, a, b, closes, trace>>

\* line 16: for i in range(0, size, BLOCKSIZE)
ForNext ==
    /\ pc = "for"
    /\ IF RangeHasNext(nexti, size)
       THEN /\ i' = nexti
            /\ nexti' = RangeStep(nexti)
            /\ pc' = "seek1"
       ELSE /\ pc' = "exit"
            /\ UNCHANGED <<i, nexti>>
    /\ UNCHANGED <<file, env, run, snap, size, a, b, hstate, err, trace>>

\* line 18: file.seek(i)
Seek1 ==
    /\ pc = "seek1"
    /\ pos' = i
    /\ trace' = Append(trace, Ev("seek", i, handle = "open", <<>>))
    /\ pc' = "read"
    /\ UNCHANGED <<file, env, run, snap, locals, handle, openCalls, opens, closes, err>>

\* line 19: a, b = file.read(2)
ReadUnpack ==
    /\ pc = "read"
    /\ LET data == FileRead(file, pos, 2) IN
         /\ trace' = Append(trace, Ev("read", pos, handle = "open", data))
         /\ pos' = pos + Len(data)
         /\ IF CanUnpack2(data)
            THEN /\ a' = data[1]
                 /\ b' = data[2]
                 /\ pc' = "seek2"
                 /\ err' = err
            ELSE /\ pc' = "exit"
                 /\ err' = "ValueError"
                 /\ UNCHANGED <<a, b>>
    /\ UNCHANGED <<file, env, run, snap, size, nexti, i, handle, openCalls, opens, closes>>

\* Variant: the seek back to the offset is missing.
Seek2Missing ==
    /\ pc = "seek2"
    /\ pc' = "write"
    /\ UNCHANGED <<file, env, run, snap, locals, hstate, err, trace>>

\* line 22: file.seek(i)
Seek2 ==
    /\ pc = "seek2"
    /\ pos' = i
    /\ trace' = Append(trace, Ev("seek", i, handle = "open", <<>>))
    /\ pc' = "write"
    /\ UNCHANGED <<file, env, run, snap, locals, handle, openCalls, opens, closes, err>>

\* line 23: file.write(bytes([a, b]))
Write ==
    /\ pc = "write"
    /\ IF BytesOk(a, b)
       THEN LET data == BytesOf(a, b) IN
              /\ file' = FileWrite(file, pos, data)
              /\ trace' = Append(trace, Ev("write", pos, handle = "open", data))
              /\ pos' = pos + Len(data)
              /\ pc' = "for"
              /\ err' = err
       ELSE /\ pc' = "exit"
            /\ err' = "ValueError"
            /\ UNCHANGED <<file, trace, pos>>
    /\ UNCHANGED <<env, run, snap, locals, handle, openCalls, opens, closes>>

\* lines 18, 19, 22: the seek or the read fails in the operating system.
IOFail ==
    /\ pc \in {"seek1", "read", "seek2"}
    /\ err' = "OSError"
    /\ pc' = "exit"
    /\ UNCHANGED <<file, env, run, snap, locals, hstate, trace>>

\* line 23: the write fails after k of its bytes reached the file.
WriteFail ==
    /\ pc = "write"
    /\ BytesOk(a, b)
    /\ \E k \in 0..1 :
         LET data == SubSeq(BytesOf(a, b), 1, k) IN
           /\ file' = FileWrite(file, pos, data)
           /\ trace' = Append(trace, Ev("write", pos, handle = "open", data))
           /\ pos' = pos + k
    /\ err' = "OSError"
    /\ pc' = "exit"
    /\ UNCHANGED <<env, run, snap, locals, handle, openCalls, opens, closes>>

\* Variant: the file is closed by a call after the loop, not by a with block.
CloseAfterLoopOnly ==
    /\ pc = "exit"
    /\ handle' = IF err = "none" THEN "closed" ELSE handle
    /\ closes' = IF err = "none" THEN closes + 1 ELSE closes
    /\ pc' = IF err = "none" THEN "done" ELSE "raised"
    /\ UNCHANGED <<file, env, run, snap, locals, pos, openCalls, opens, err, trace>>

\* line 14: leaving the with block, normally or by an exception, closes the file.
Close ==
    /\ pc = "exit"
    /\ handle' = "closed"
    /\ closes' = closes + 1
    /\ pc' = IF err = "none" THEN "done" ELSE "raised"
    /\ UNCHANGED <<file, env, run, snap, locals, pos, openCalls, opens, err, trace>>

\* lines 26-27: rewrite_file is called again on the same path.
CallAgain ==
    /\ pc \in {"done", "raised"}
    /\ run < MaxRuns
    /\ run' = run + 1
    /\ snap' = Append(snap, file)
    /\ pc' = "getsize"
    /\ size' = -1 /\ nexti' = 0 /\ i' = -1 /\ a' = -1 /\ b' = -1
    /\ pos' = 0 /\ handle' = "none" /\ openCalls' = 0 /\ opens' = 0 /\ closes' = 0
    /\ err' = "none"
    /\ trace' = <<>>
    /\ UNCHANGED <<file, env>>

Next ==
    \/ GetSize
    \/ Open
    \/ ForNext
    \/ Seek1
    \/ ReadUnpack
    \/ Seek2
    \/ Write
    \/ IOFail
    \/ WriteFail
    \/ Close
    \/ CallAgain

Spec == Init /\ [][Next]_vars

\* ------------------------------------------------------------ properties
Terminal == pc \in {"done", "raised"}
ShortSize(n) == n % BLOCKSIZE = 1

\* Positions covered by a read or write step.
Covered(ev) == ev.at .. ev.at + Len(ev.data) - 1

IsRead(ev) == ev.op = "read"
IsWrite(ev) == ev.op = "write"
IsIO(ev) == ev.op \in {"read", "write"}

\* The steps of section 4.1 for the offsets j, j + BLOCKSIZE, ... below sz.
RECURSIVE StepsFrom(_, _, _)
StepsFrom(f, j, sz) ==
    IF j >= sz THEN <<>>
    ELSE LET d == <<ByteAt(f, j), ByteAt(f, j + 1)>> IN
           <<Ev("seek", j, TRUE, <<>>), Ev("read", j, TRUE, d),
             Ev("seek", j, TRUE, <<>>), Ev("write", j, TRUE, d)>>
           \o StepsFrom(f, j + BLOCKSIZE, sz)

\* Offsets at which the steps of a trace read, in order.
RECURSIVE ReadOffsets(_)
ReadOffsets(t) ==
    IF t = <<>> THEN <<>>
    ELSE (IF IsRead(Head(t)) THEN <<Head(t).at>> ELSE <<>>) \o ReadOffsets(Tail(t))

\* C1: content invariance. When a call completes on a file whose size is not
\* congruent to 1 modulo BLOCKSIZE, the file is byte-for-byte what it was before,
\* and the bytes at every offset written are the bytes that were there before.
C1_ContentInvariance ==
    (pc = "done" /\ ~ShortSize(origFile.size)) =>
        /\ SameContent(file, origFile)
        /\ \A k \in 1..Len(trace) :
              IsWrite(trace[k]) =>
                 \A p \in {trace[k].at, trace[k].at + 1} :
                    ByteAt(file, p) = ByteAt(origFile, p)

C1_Witness ==
    /\ pc = "done" /\ run = 1
    /\ origFile.size = 2 * BLOCKSIZE + 50
    /\ Len(trace) = 12

\* C2: short-read failure. A call on a file whose size is congruent to 1 modulo
\* BLOCKSIZE never completes successfully; the read at the final offset size-1
\* yields one byte and raises the unpacking error, and a read yields fewer than
\* two bytes at no other offset.
C2_ShortReadFails ==
    /\ (origExists /\ ShortSize(origFile.size)) => pc # "done"
    /\ \A k \in 1..Len(trace) :
          IsRead(trace[k]) =>
             /\ (trace[k].at = size - 1) =>
                   (ShortSize(size) /\ Len(trace[k].data) = 1 /\ err = "ValueError")
             /\ (Len(trace[k].data) < 2) =>
                   (trace[k].at = size - 1 /\ ShortSize(size))
    /\ (err = "ValueError") => ShortSize(size)

C2_Witness ==
    /\ pc = "raised" /\ err = "ValueError"
    /\ size = 2 * BLOCKSIZE + 1
    /\ trace[Len(trace)].op = "read"
    /\ trace[Len(trace)].at = size - 1

\* C3: the length of the file never changes, in any state of a call, and no
\* write step reaches beyond the original end of the file.
C3_LengthUnchanged ==
    /\ exists = origExists
    /\ file.size = origFile.size
    /\ \A k \in 1..Len(trace) :
          IsWrite(trace[k]) => trace[k].at + Len(trace[k].data) <= origFile.size

C3_Witness ==
    /\ pc = "for"
    /\ size = BLOCKSIZE + 2
    /\ Len(trace) = 8
    /\ trace[8].op = "write" /\ trace[8].at + 2 = size

\* C4: idempotence. After a second call the file is byte-for-byte the file the
\* first call left.
C4_Idempotent ==
    (run >= 2 /\ Terminal) => SameContent(file, snap[1])

C4_Witness ==
    /\ run = 2 /\ pc = "done"
    /\ size = 2 * BLOCKSIZE + 2
    /\ Len(trace) = 12

\* C5: missing file. When the path does not exist the call fails with the
\* not-found error of getsize: open is never called, no handle is held, no
\* seek, read or write is issued, and the path still does not exist.
C5_MissingFile ==
    ~origExists =>
        /\ ~exists
        /\ openCalls = 0 /\ opens = 0 /\ handle = "none"
        /\ trace = <<>>
        /\ Terminal => (pc = "raised" /\ err = "FileNotFoundError")
        /\ pc \in {"getsize", "raised"}

C5_Witness ==
    ~origExists /\ pc = "raised" /\ err = "FileNotFoundError"

\* C6: handle lifecycle. A call acquires the handle at most once; once the call
\* has returned or raised, an acquired handle has been released exactly once;
\* every seek, read and write is issued while the handle is held.
C6_HandleLifecycle ==
    /\ opens <= 1
    /\ closes <= opens
    /\ (handle = "open") <=> (opens = 1 /\ closes = 0)
    /\ Terminal => (closes = opens /\ handle # "open")
    /\ \A k \in 1..Len(trace) : trace[k].held

C6_Witness ==
    /\ pc = "raised" /\ err = "ValueError"
    /\ opens = 1 /\ closes = 1 /\ handle = "closed"

\* C7: interruption safety. For a file whose size is not congruent to 1 modulo
\* BLOCKSIZE, the file is byte-for-byte its original content in every state of
\* a call, whatever prefix of the steps has been executed.
C7_InterruptSafe ==
    ~ShortSize(origFile.size) => SameContent(file, origFile)

C7_Witness ==
    /\ pc = "write" /\ run = 1
    /\ i = BLOCKSIZE
    /\ size = 2 * BLOCKSIZE
    /\ Len(trace) = 7

\* C8 (as stated): a call that completes has issued exactly seek(i), read,
\* seek(i), write of the bytes read, for i = 0, BLOCKSIZE, ... below size,
\* ascending, each once; size 0 processes nothing and completes, size BLOCKSIZE
\* processes offset 0, and size 2*BLOCKSIZE+50 processes offsets 0 and BLOCKSIZE.
C8_AsStated ==
    /\ (pc = "done") =>
          /\ trace = StepsFrom(origFile, 0, origFile.size)
          /\ (origFile.size = 0) => trace = <<>>
          /\ (origFile.size = BLOCKSIZE) => ReadOffsets(trace) = <<0>>
          /\ (origFile.size = 2 * BLOCKSIZE + 50) => ReadOffsets(trace) = <<0, BLOCKSIZE>>
    /\ (Terminal /\ origExists /\ writable /\ origFile.size = 0) => pc = "done"

\* C8: processed offsets and step order. A call that completes has issued
\* exactly seek(i), read, seek(i), write of the bytes read, for i = 0, BLOCKSIZE,
\* ... below size, ascending, each once. Size 0 processes nothing and completes,
\* size BLOCKSIZE processes offset 0, and size 2*BLOCKSIZE+50 processes offsets
\* 0, BLOCKSIZE and 2*BLOCKSIZE.
C8_StepOrder ==
    /\ (pc = "done") =>
          /\ trace = StepsFrom(origFile, 0, origFile.size)
          /\ (origFile.size = 0) => trace = <<>>
          /\ (origFile.size = BLOCKSIZE) => ReadOffsets(trace) = <<0>>
          /\ (origFile.size = 2 * BLOCKSIZE + 50) =>
                ReadOffsets(trace) = <<0, BLOCKSIZE, 2 * BLOCKSIZE>>
    /\ (Terminal /\ origExists /\ writable /\ origFile.size = 0) => pc = "done"

C8_Witness ==
    /\ pc = "done"
    /\ origFile.size = 2 * BLOCKSIZE + 50
    /\ ReadOffsets(trace) = <<0, BLOCKSIZE, 2 * BLOCKSIZE>>

\* C9: frame of access. Every read and write step covers only positions i and
\* i+1 of a block offset i below size; no other position of the file is ever
\* written.
C9_Frame ==
    /\ \A k \in 1..Len(trace) :
          IsIO(trace[k]) =>
             /\ trace[k].at % BLOCKSIZE = 0
             /\ trace[k].at < origFile.size
             /\ Covered(trace[k]) \subseteq {trace[k].at, trace[k].at + 1}
    /\ \A p \in DOMAIN file.overlay :
          p < origFile.size /\ p % BLOCKSIZE \in {0, 1}

C9_Witness ==
    /\ pc = "done"
    /\ origFile.size = 2 * BLOCKSIZE + 50
    /\ DOMAIN file.overlay =
          {0, 1, BLOCKSIZE, BLOCKSIZE + 1, 2 * BLOCKSIZE, 2 * BLOCKSIZE + 1}

\* C10: state at the short-read abort. When the unpacking error is raised on a
\* file of size k*BLOCKSIZE+1, every offset below k*BLOCKSIZE has been read and
\* written back, the final offset has been read but not written, nothing
\* follows, and the content and the length of the file are the original ones.
C10_AbortState ==
    (err = "ValueError") =>
        LET last == size - 1 IN
          /\ ShortSize(size)
          /\ trace = StepsFrom(origFile, 0, last)
                       \o <<Ev("seek", last, TRUE, <<>>),
                            Ev("read", last, TRUE, <<ByteAt(origFile, last)>>)>>
          /\ \A k \in 1..Len(trace) : IsWrite(trace[k]) => trace[k].at # last
          /\ SameContent(file, origFile)
          /\ pc \in {"exit", "raised"}

C10_Witness ==
    /\ err = "ValueError" /\ pc = "raised"
    /\ size = 2 * BLOCKSIZE + 1
    /\ Len(trace) = 10

====
